---- MODULE Spec2Model ----
(***************************************************************************)
(* Model of the yargitay-bot ingestion pipeline and read path:             *)
(*   Uploader (src/src/uploader.py), the two MetadataIndex handlers        *)
(*   (src/src/database.py, src/src/local_database.py), the two             *)
(*   StorageBackend handlers (src/src/local_storage.py,                    *)
(*   src/src/hf_storage.py) and Reader (src/src/reader.py).                *)
(*                                                                         *)
(* Python values are encoded uniformly as records [k, n, s]:               *)
(*   k = "int"  : the integer n                                            *)
(*   k = "str"  : the string s, a sequence of one-character strings        *)
(*   k = "none" : None                                                     *)
(*   k = "absent": the key is not in the dict at all                       *)
(***************************************************************************)
EXTENDS Integers, Sequences, FiniteSets, TLC

(***************************************************************************)
(* Bounds of the model.                                                    *)
(***************************************************************************)
\* Longest input list handed to process_data / process_file.
MaxItems == 3
\* Ingest runs in one behaviour.
MaxRuns == 1
\* Largest value of int(time.time()) seen in one behaviour.
MaxClock == 0
\* self.BATCH_SIZE (100 in uploader.py:27), scaled so that a run fills a batch.
BATCH_SIZE == 2
\* "LIMIT 20" of search_decisions, scaled so that an index can exceed it.
SEARCH_LIMIT == 2
\* Longest entry list handed directly to upsert_metadata.
MaxEntries == 2

(***************************************************************************)
(* Python values.                                                          *)
(***************************************************************************)
PyInt(n) == [k |-> "int", n |-> n, s |-> <<>>]
PyStr(s) == [k |-> "str", n |-> 0, s |-> s]
None     == [k |-> "none", n |-> 0, s |-> <<>>]
Absent   == [k |-> "absent", n |-> 0, s |-> <<>>]

Digits == <<"0", "1", "2", "3", "4", "5", "6", "7", "8", "9">>
DigitSet == {Digits[d] : d \in 1..10}
DigitVal(c) == (CHOOSE d \in 1..10 : Digits[d] = c) - 1

RECURSIVE IntToStr(_)
\* str(n) for an int n >= 0.
IntToStr(n) == IF n < 10 THEN <<Digits[n + 1]>>
               ELSE IntToStr(n \div 10) \o <<Digits[(n % 10) + 1]>>

RECURSIVE StrToInt(_)
\* int(s) for a string of decimal digits.
StrToInt(s) == IF s = <<>> THEN 0
               ELSE 10 * StrToInt(SubSeq(s, 1, Len(s) - 1)) + DigitVal(s[Len(s)])

\* s.isdigit()
IsDigit(s) == s # <<>> /\ \A p \in 1..Len(s) : s[p] \in DigitSet

\* str(v)
Str(v) == CASE v.k = "int" -> IntToStr(v.n)
            [] v.k = "str" -> v.s
            [] OTHER       -> <<"N", "o", "n", "e">>

\* bool(v): the truth value Python's `if v`, `not v` and `a or b` use.
Truthy(v) == CASE v.k = "int" -> v.n # 0
               [] v.k = "str" -> v.s # <<>>
               [] OTHER       -> FALSE

\* a or b
Or(a, b) == IF Truthy(a) THEN a ELSE b

\* record.get(key): None when the key is absent.
Get(record, key) == IF record[key].k = "absent" THEN None ELSE record[key]

\* record.get(key, default)
GetOr(record, key, default) ==
    IF record[key].k = "absent" THEN default ELSE record[key]

\* key in record
Has(record, key) == record[key].k # "absent"

\* int(v) raises ValueError for a string that is no decimal number.
IntRaises(v) == v.k # "int" /\ ~(v.k = "str" /\ IsDigit(v.s))
IntOf(v) == IF v.k = "int" THEN v.n ELSE StrToInt(v.s)

(***************************************************************************)
(* Text: a string is a sequence of one-character strings.  NBSP stands for *)
(* the single character '\xa0'.                                            *)
(***************************************************************************)
NBSP == "nbsp"
LowerLetters == <<"a", "b", "c", "d", "e", "f", "g", "h", "i", "j", "k", "l", "m",
                  "n", "o", "p", "q", "r", "s", "t", "u", "v", "w", "x", "y", "z">>
UpperLetters == <<"A", "B", "C", "D", "E", "F", "G", "H", "I", "J", "K", "L", "M",
                  "N", "O", "P", "Q", "R", "S", "T", "U", "V", "W", "X", "Y", "Z">>
IsUpper(c) == \E p \in 1..26 : UpperLetters[p] = c
IsLetter(c) == \E p \in 1..26 : UpperLetters[p] = c \/ LowerLetters[p] = c
IsSpace(c) == c \in {" ", "\n", "\t"}
IsDigitChar(c) == c \in DigitSet
IsHeaderChar(c) == IsLetter(c) \/ IsSpace(c)
\* c.lower()
Lower(c) == IF IsUpper(c)
            THEN LowerLetters[CHOOSE p \in 1..26 : UpperLetters[p] = c]
            ELSE c
LowerStr(s) == [p \in 1..Len(s) |-> Lower(s[p])]

\* s[:n]
Prefix(s, n) == SubSeq(s, 1, IF Len(s) < n THEN Len(s) ELSE n)

\* lit occurs in t at position p; ci: compared case-insensitively.
LitAt(t, p, lit, ci) ==
    /\ p >= 1
    /\ p + Len(lit) - 1 <= Len(t)
    /\ \A q \in 1..Len(lit) :
          IF ci THEN Lower(t[p + q - 1]) = Lower(lit[q]) ELSE t[p + q - 1] = lit[q]

\* needle in haystack
Contains(haystack, needle) ==
    \E p \in 1..(Len(haystack) + 1) : LitAt(haystack, p, needle, FALSE)

IsNotGt(c) == c # ">"
\* c is of the regex class cls: \d, \s or [^>]
InClass(c, cls) ==
    CASE cls = "\\d" -> IsDigitChar(c)
      [] cls = "\\s" -> IsSpace(c)
      [] cls = "[^>]" -> IsNotGt(c)

\* The position after the longest run of characters of class cls that starts at p.
RunEnd(t, p, cls) ==
    CHOOSE q \in p..(Len(t) + 1) :
        /\ \A r \in p..(q - 1) : InClass(t[r], cls)
        /\ q = Len(t) + 1 \/ ~InClass(t[q], cls)

RECURSIVE ReplaceFrom(_, _, _, _)
\* t[p-1:].replace(old, new), old not empty: copy up to the next occurrence
ReplaceFrom(t, p, old, new) ==
    LET occ == {q \in p..Len(t) : LitAt(t, q, old, FALSE)}
    IN  IF occ = {} THEN SubSeq(t, p, Len(t))
        ELSE LET q == CHOOSE m \in occ : \A o \in occ : m <= o
             IN  SubSeq(t, p, q - 1) \o new \o ReplaceFrom(t, q + Len(old), old, new)

\* t.replace(old, new)
ReplaceAll(t, old, new) == ReplaceFrom(t, 1, old, new)

\* <[^>]+> matches at p
TagAt(t, p) ==
    /\ t[p] = "<"
    /\ RunEnd(t, p + 1, "[^>]") > p + 1
    /\ RunEnd(t, p + 1, "[^>]") <= Len(t)

RECURSIVE StripTagsFrom(_, _)
\* re.sub(r'<[^>]+>', ' ', t[p-1:]): copy up to the next tag
StripTagsFrom(t, p) ==
    LET tags == {q \in p..Len(t) : TagAt(t, q)}
    IN  IF tags = {} THEN SubSeq(t, p, Len(t))
        ELSE LET q == CHOOSE m \in tags : \A o \in tags : m <= o
             IN  SubSeq(t, p, q - 1) \o <<" ">>
                    \o StripTagsFrom(t, RunEnd(t, q + 1, "[^>]") + 1)

\* re.sub(r'<[^>]+>', ' ', t)
StripTags(t) == StripTagsFrom(t, 1)

RECURSIVE Strip(_)
\* s.strip()
Strip(s) == IF s = <<>> THEN s
            ELSE IF IsSpace(s[1]) THEN Strip(SubSeq(s, 2, Len(s)))
            ELSE IF IsSpace(s[Len(s)]) THEN Strip(SubSeq(s, 1, Len(s) - 1))
            ELSE s

Min(S) == CHOOSE m \in S : \A o \in S : m <= o
Max(S) == CHOOSE m \in S : \A o \in S : m >= o

(***************************************************************************)
(* Uploader.extract_metadata (uploader.py:29-81).                          *)
(***************************************************************************)
\* (\d{4}\/\d+)\s*X\.  matched at position a, X case-insensitive: the position
\* after the match, 0 when it does not match there.
NumberEnd(t, a, X) ==
    IF /\ a + 5 <= Len(t)
       /\ \A r \in a..(a + 3) : IsDigitChar(t[r])
       /\ t[a + 4] = "/"
       /\ IsDigitChar(t[a + 5])
    THEN LET d == RunEnd(t, a + 5, "\\d")
             w == RunEnd(t, d, "\\s")
         IN  IF LitAt(t, w, <<X, ".">>, TRUE) THEN w + 2 ELSE 0
    ELSE 0
\* the text of group (\d{4}\/\d+) matched at a
NumberText(t, a) == SubSeq(t, a, RunEnd(t, a + 5, "\\d") - 1)

\* Start positions of (\d{4}\/\d+)\s*E\. at or after e that are followed, after
\* the match, by some (\d{4}\/\d+)\s*K\.
EsasStarts(t, e) ==
    {a \in e..Len(t) :
        /\ NumberEnd(t, a, "e") > 0
        /\ \E b \in NumberEnd(t, a, "e")..Len(t) : NumberEnd(t, b, "k") > 0}

\* Start positions m of "Dairesi" that close group 1 of a header starting at p
\* and from which the rest of the header pattern matches.
DairesiStarts(t, p) ==
    LET d == RunEnd(t, p, "\\d")
    IN  IF d > p /\ d + 1 <= Len(t) /\ t[d] = "." /\ IsSpace(t[d + 1])
        THEN {m \in (d + 3)..Len(t) :
                 /\ \A r \in (d + 2)..(m - 1) : IsHeaderChar(t[r])
                 /\ LitAt(t, m, <<"d", "a", "i", "r", "e", "s", "i">>, TRUE)
                 /\ EsasStarts(t, m + 7) # {}}
        ELSE {}

HeaderStarts(t) == {p \in 1..Len(t) : DairesiStarts(t, p) # {}}

\* (\d{2}\.\d{2}\.\d{4})\s+tarihinde matched at p
DateAt(t, p) ==
    /\ p + 10 <= Len(t)
    /\ \A r \in {p, p + 1, p + 3, p + 4, p + 6, p + 7, p + 8, p + 9} : IsDigitChar(t[r])
    /\ t[p + 2] = "."
    /\ t[p + 5] = "."
    /\ IsSpace(t[p + 10])
    /\ LitAt(t, RunEnd(t, p + 10, "\\s"),
             <<"t", "a", "r", "i", "h", "i", "n", "d", "e">>, FALSE)

DateStarts(t) == {p \in 1..Len(t) : DateAt(t, p)}

IsLeap(y) == (y % 4 = 0 /\ y % 100 # 0) \/ y % 400 = 0
DaysIn(m, y) == IF m = 2 THEN (IF IsLeap(y) THEN 29 ELSE 28)
                ELSE IF m \in {4, 6, 9, 11} THEN 30 ELSE 31

\* A faulty strptime that accepts every dd.mm.yyyy token; the extraction
\* property must tell it from StrptimeOk.
StrptimeAny(ds) == TRUE

\* datetime.strptime(date_str, "%d.%m.%Y") accepts the token DD.MM.YYYY
StrptimeOk(ds) ==
    LET d == StrToInt(SubSeq(ds, 1, 2))
        m == StrToInt(SubSeq(ds, 4, 5))
        y == StrToInt(SubSeq(ds, 7, 10))
    IN  y >= 1 /\ m >= 1 /\ m <= 12 /\ d >= 1 /\ d <= DaysIn(m, y)

\* dt_obj.strftime("%Y-%m-%d") of the date parsed from the token DD.MM.YYYY
Strftime(ds) == SubSeq(ds, 7, 10) \o <<"-">> \o SubSeq(ds, 4, 5) \o <<"-">> \o SubSeq(ds, 1, 2)

CleanText(text) ==
    StripTags(ReplaceAll(ReplaceAll(text, <<NBSP>>, <<" ">>),
                         <<"&", "n", "b", "s", "p", ";">>, <<" ">>))

\* The groups of the first header match, which starts at p: group 1 ends with
\* the last "Dairesi" from which the rest matches (greedy), group 2 is the
\* first (\d{4}\/\d+) after it that an E. and later a K. number follow
\* (lazy), group 3 the first K. number after that.
KararStart(t, a) == Min({c \in NumberEnd(t, a, "e")..Len(t) : NumberEnd(t, c, "k") > 0})
HeaderGroups(t, p, m, a) ==
    [daire    |-> PyStr(Strip(SubSeq(t, p, m + 6))),
     esas_no  |-> PyStr(Strip(NumberText(t, a))),
     karar_no |-> PyStr(Strip(NumberText(t, KararStart(t, a))))]
HeaderFrom(t, p, m) == HeaderGroups(t, p, m, Min(EsasStarts(t, m + 7)))
HeaderAt(t, p) == HeaderFrom(t, p, Max(DairesiStarts(t, p)))
NoHeader == [daire |-> None, esas_no |-> None, karar_no |-> None]
HeaderOf(t, hs) == IF hs = {} THEN NoHeader ELSE HeaderAt(t, Min(hs))

\* karar_tarihi from the first date token followed by "tarihinde"
DateFrom(date_str) == IF StrptimeOk(date_str) THEN PyStr(Strftime(date_str)) ELSE None
DateOf(t, ds) == IF ds = {} THEN None ELSE DateFrom(SubSeq(t, Min(ds), Min(ds) + 9))

Extracted(header, date) ==
    [daire |-> header.daire, esas_no |-> header.esas_no,
     karar_no |-> header.karar_no, karar_tarihi |-> date]
ExtractClean(t) == Extracted(HeaderOf(t, HeaderStarts(t)), DateOf(t, DateStarts(t)))

extract_metadata(text) == ExtractClean(CleanText(text))


(***************************************************************************)
(* Uploader: normalisation of one raw item (uploader.py:90-159, 195-274).  *)
(* A raw item is a record with the keys RawKeys, each a Python value.      *)
(***************************************************************************)
\* content[:200] and the 250-character summary cap
SUMMARY_PREFIX == 200
SUMMARY_MAX == 250
Ellipsis == <<".", ".", ".">>
EmptyStr == PyStr(<<>>)
NoFullText == PyStr(<<"F", "u", "l", "l", " ", "t", "e", "x", "t", " ", "n", "o", "t", " ", "a", "v", "a", "i", "l", "a", "b", "l", "e", " ", "(", "M", "e", "t", "a", "d", "a", "t", "a", " ", "o", "n", "l", "y", " ", "d", "o", "w", "n", "l", "o", "a", "d", ")", ".">>)

\* summary[:250] + "..." when summary is longer than 250 (uploader.py:146-147)
Truncate(summary) ==
    IF Truthy(summary) /\ Len(summary.s) > SUMMARY_MAX
    THEN PyStr(Prefix(summary.s, SUMMARY_MAX) \o Ellipsis)
    ELSE summary

RECURSIVE Split(_, _)
\* s.split(sep) for a one-character sep
Split(s, sep) ==
    IF \A p \in 1..Len(s) : s[p] # sep THEN <<s>>
    ELSE LET c == Min({p \in 1..Len(s) : s[p] = sep})
         IN  <<SubSeq(s, 1, c - 1)>> \o Split(SubSeq(s, c + 1, Len(s)), sep)

Item(storage_object, metadata) ==
    [storage_object |-> storage_object, metadata |-> metadata]

StorageObject(id, daire, esasNo, kararNo, kararTarihi, icerik_ham, ai_ozet, arananKelime) ==
    [id |-> id, daire |-> daire, esasNo |-> esasNo, kararNo |-> kararNo,
     kararTarihi |-> kararTarihi, icerik_ham |-> icerik_ham, ai_ozet |-> ai_ozet,
     arananKelime |-> arananKelime]

\* the index entry before the flush sets full_text_url
Metadata(id, extracted, summary) ==
    [id |-> id, daire |-> extracted.daire, esas_no |-> extracted.esas_no,
     karar_no |-> extracted.karar_no, karar_tarihi |-> extracted.karar_tarihi,
     ozet |-> summary, full_text_url |-> Absent]

\* record_id of process_data: record.get("id") or record.get("Id")
DataRecordId(record) == Or(Get(record, "id"), Get(record, "Id"))

\* int(record_id) if str(record_id).isdigit() else 0   (uploader.py:152)
DataMetadataId(record_id) ==
    IF IsDigit(Str(record_id)) THEN IntOf(record_id) ELSE 0

\* process_data takes the pre-structured branch (uploader.py:101)
DataIsApi(record) ==
    Has(record, "icerik_ham") /\ Has(record, "daire") /\ Has(record, "esasNo")

\* process_data skips the record: `continue` at uploader.py:94 or 130
DataDrops(record) ==
    \/ ~Truthy(DataRecordId(record))
    \/ ~DataIsApi(record) /\ ~Truthy(GetOr(record, "icerik_ham", EmptyStr))

\* The legacy branch of process_data (uploader.py:127-159)
DataLegacyItem(record, record_id, content, extracted) ==
    LET summary == Or(Get(record, "ai_ozet"),
                      PyStr(Prefix(content.s, SUMMARY_PREFIX)))
    IN  Item(StorageObject(PyStr(Str(Get(record, "id"))),
                           extracted.daire, extracted.esas_no,
                           extracted.karar_no, extracted.karar_tarihi,
                           content, summary, Absent),
             Metadata(DataMetadataId(record_id), extracted, Truncate(summary)))

\* The batch item process_data appends for a record it does not skip.
DataItem(record) ==
    LET record_id == DataRecordId(record)
        content == GetOr(record, "icerik_ham", EmptyStr)
    IN  IF DataIsApi(record)
        THEN LET extracted == [daire        |-> Get(record, "daire"),
                               esas_no      |-> Get(record, "esasNo"),
                               karar_no     |-> Get(record, "kararNo"),
                               karar_tarihi |-> Get(record, "kararTarihi")]
                 summary == GetOr(record, "ai_ozet", EmptyStr)
             IN  Item(StorageObject(PyStr(Str(Get(record, "id"))),
                                    Get(record, "daire"), Get(record, "esasNo"),
                                    Get(record, "kararNo"), Get(record, "kararTarihi"),
                                    content, summary, record.arananKelime),
                      Metadata(DataMetadataId(record_id), extracted, Truncate(summary)))
        ELSE DataLegacyItem(record, record_id, content, extract_metadata(content.s))

\* process_file takes the pre-structured branch (uploader.py:206)
FileIsApi(record) == Has(record, "daire") /\ Has(record, "esasNo")

\* process_file skips the record: `continue` at uploader.py:199 or 243
FileDrops(record) ==
    \/ ~Truthy(Get(record, "id"))
    \/ ~FileIsApi(record) /\ ~Truthy(GetOr(record, "icerik_ham", EmptyStr))

\* The exception process_file raises on a record it does not skip, "" for none:
\* str + None at uploader.py:223, int(record_id) at uploader.py:266.
FileRaises(record) ==
    IF FileIsApi(record)
       /\ (Get(record, "daire").k # "str"
           \/ GetOr(record, "kararNo", EmptyStr).k # "str")
    THEN "TypeError"
    ELSE IF IntRaises(Get(record, "id")) THEN "ValueError" ELSE ""

\* "28.10.2009" -> "2009-10-28" (uploader.py:214-221)
FileDate(kt) ==
    IF Truthy(kt) /\ kt.k = "str" /\ Len(Split(kt.s, ".")) = 3
    THEN LET parts == Split(kt.s, ".")
         IN  PyStr(parts[3] \o <<"-">> \o parts[2] \o <<"-">> \o parts[1])
    ELSE None

\* The legacy branch of process_file (uploader.py:240-274)
FileLegacyObject(record, record_id, content, extracted, summary) ==
    Item(StorageObject(PyStr(Str(record_id)),
                       Or(extracted.daire, Get(record, "daire")),
                       Or(extracted.esas_no, Get(record, "esasNo")),
                       Or(extracted.karar_no, Get(record, "kararNo")),
                       extracted.karar_tarihi,
                       content, summary, Absent),
         Metadata(IntOf(record_id), extracted, Truncate(summary)))
FileLegacyItem(record, record_id, content) ==
    FileLegacyObject(record, record_id, content, extract_metadata(content.s),
                     Or(Get(record, "ai_ozet"), PyStr(Prefix(content.s, SUMMARY_PREFIX))))

\* The batch item process_file appends for a record it neither skips nor raises on.
FileItem(record) ==
    LET record_id == Get(record, "id")
    IN  IF FileIsApi(record)
        THEN LET extracted == [daire        |-> Get(record, "daire"),
                               esas_no      |-> Get(record, "esasNo"),
                               karar_no     |-> Get(record, "kararNo"),
                               karar_tarihi |-> FileDate(Get(record, "kararTarihi"))]
                 summary == PyStr(GetOr(record, "daire", EmptyStr).s \o <<" ">>
                                  \o GetOr(record, "kararNo", EmptyStr).s)
             IN  Item(StorageObject(PyStr(Str(record_id)),
                                    Get(record, "daire"), Get(record, "esasNo"),
                                    Get(record, "kararNo"), Get(record, "kararTarihi"),
                                    GetOr(record, "icerik_ham", NoFullText),
                                    GetOr(record, "ai_ozet", EmptyStr),
                                    record.arananKelime),
                      Metadata(IntOf(record_id), extracted, Truncate(summary)))
        ELSE FileLegacyItem(record, record_id, GetOr(record, "icerik_ham", EmptyStr))


(***************************************************************************)
(* MetadataIndex: DatabaseHandler (mode "remote", database.py) and         *)
(* LocalDatabaseHandler (mode "local", local_database.py).  The table      *)
(* `decisions` is a function from the primary key id to the row.           *)
(***************************************************************************)
Modes == {"local", "remote"}

Row(m) == [id |-> m.id, daire |-> m.daire, esas_no |-> m.esas_no,
           karar_no |-> m.karar_no, karar_tarihi |-> m.karar_tarihi,
           ozet |-> m.ozet, full_text_url |-> Get(m, "full_text_url")]

\* s is a calendar date written YYYY-MM-DD
IsIsoDate(s) ==
    /\ Len(s) = 10
    /\ \A r \in {1, 2, 3, 4, 6, 7, 9, 10} : IsDigitChar(s[r])
    /\ s[5] = "-"
    /\ s[8] = "-"
    /\ LET y == StrToInt(SubSeq(s, 1, 4))
           m == StrToInt(SubSeq(s, 6, 7))
           d == StrToInt(SubSeq(s, 9, 10))
       IN  y >= 1 /\ m >= 1 /\ m <= 12 /\ d >= 1 /\ d <= DaysIn(m, y)

\* The column karar_tarihi DATE (database.py:26) takes NULL or a date.
DateColumnAccepts(v) == v.k = "none" \/ (v.k = "str" /\ IsIsoDate(v.s))

\* INSERT OR REPLACE / ON CONFLICT (id) DO UPDATE SET <every column> of one row
PutRow(table, m) ==
    [j \in DOMAIN table \cup {m.id} |-> IF j = m.id THEN Row(m) ELSE table[j]]

RECURSIVE PutRows(_, _)
\* one INSERT OR REPLACE per item, in list order (local_database.py:40-53)
PutRows(table, metadata_list) ==
    IF metadata_list = <<>> THEN table
    ELSE PutRows(PutRow(table, Head(metadata_list)), Tail(metadata_list))

\* The single INSERT ... VALUES ... ON CONFLICT (id) DO UPDATE statement of
\* database.py:54-84 fails as a whole when its VALUES list names one id twice
\* (the statement cannot affect a row a second time) or carries a value the
\* DATE column rejects.
StatementRejected(metadata_list) ==
    \/ \E a, b \in 1..Len(metadata_list) :
          a # b /\ metadata_list[a].id = metadata_list[b].id
    \/ \E a \in 1..Len(metadata_list) :
          ~DateColumnAccepts(metadata_list[a].karar_tarihi)

\* upsert_metadata raises whatever the store does
UpsertRaises(mode, metadata_list) ==
    mode = "remote" /\ metadata_list # <<>> /\ StatementRejected(metadata_list)

\* The table after an upsert_metadata call that does not raise.
Upserted(mode, table, metadata_list) == PutRows(table, metadata_list)

(***************************************************************************)
(* search_decisions: kwargs is a record over FilterKeys, holding Absent    *)
(* for a filter that is not supplied.                                      *)
(***************************************************************************)
FilterKeys == {"id", "daire", "esas_no", "karar_no", "keyword", "year",
               "start_date", "end_date"}
NoFilters == [f \in FilterKeys |-> Absent]

CharOrder == <<"\t", "\n", " ", "-", ".", "/">> \o Digits \o UpperLetters \o LowerLetters
Ord(c) == CHOOSE p \in 1..Len(CharOrder) : CharOrder[p] = c

RECURSIVE StrLeq(_, _)
\* a <= b, strings compared character by character
StrLeq(a, b) ==
    IF a = <<>> THEN TRUE
    ELSE IF b = <<>> THEN FALSE
    ELSE IF a[1] = b[1] THEN StrLeq(Tail(a), Tail(b))
    ELSE Ord(a[1]) < Ord(b[1])

\* column LIKE '%term%' / column ILIKE '%term%': NULL never matches.
Like(column, term) ==
    column.k = "str" /\ Contains(LowerStr(column.s), LowerStr(term))

\* id = ? : a numeric string parameter is compared as a number.
IdEquals(id, param) ==
    CASE param.k = "int" -> id = param.n
      [] param.k = "str" -> IsDigit(param.s) /\ id = StrToInt(param.s)
      [] OTHER -> FALSE

\* column = ? on a TEXT column
TextEquals(column, param) == column.k = "str" /\ column.s = Str(param)

\* karar_tarihi >= ? / karar_tarihi <= ?
DateGeq(column, bound) == column.k = "str" /\ StrLeq(bound, column.s)
DateLeq(column, bound) == column.k = "str" /\ StrLeq(column.s, bound)

\* strftime('%Y', karar_tarihi) = ?   (local_database.py:95-98)
YearEquals(column, year) ==
    column.k = "str" /\ IsIsoDate(column.s) /\ SubSeq(column.s, 1, 4) = Str(year)

\* WHERE clause of LocalDatabaseHandler.search_decisions (local_database.py:67-102)
LocalWhere(row, kwargs) ==
    /\ Truthy(kwargs.id) => IdEquals(row.id, kwargs.id)
    /\ Truthy(kwargs.daire) => Like(row.daire, Str(kwargs.daire))
    /\ Truthy(kwargs.esas_no) => TextEquals(row.esas_no, kwargs.esas_no)
    /\ Truthy(kwargs.karar_no) => TextEquals(row.karar_no, kwargs.karar_no)
    /\ Truthy(kwargs.keyword) =>
          Like(row.ozet, Str(kwargs.keyword)) \/ Like(row.daire, Str(kwargs.keyword))
    /\ Truthy(kwargs.year) => YearEquals(row.karar_tarihi, kwargs.year)
    /\ Truthy(kwargs.start_date) => DateGeq(row.karar_tarihi, Str(kwargs.start_date))

YearStart(year) == Str(year) \o <<"-", "0", "1", "-", "0", "1">>
YearEnd(year) == Str(year) \o <<"-", "1", "2", "-", "3", "1">>

\* WHERE clause of DatabaseHandler.search_decisions (database.py:93-129)
RemoteWhere(row, kwargs) ==
    /\ Truthy(kwargs.id) => IdEquals(row.id, kwargs.id)
    /\ Truthy(kwargs.daire) => Like(row.daire, Str(kwargs.daire))
    /\ Truthy(kwargs.esas_no) => TextEquals(row.esas_no, kwargs.esas_no)
    /\ Truthy(kwargs.karar_no) => TextEquals(row.karar_no, kwargs.karar_no)
    /\ Truthy(kwargs.keyword) => Like(row.ozet, Str(kwargs.keyword))
    /\ Truthy(kwargs.year) =>
          /\ DateGeq(row.karar_tarihi, YearStart(kwargs.year))
          /\ DateLeq(row.karar_tarihi, YearEnd(kwargs.year))
    /\ Truthy(kwargs.start_date) => DateGeq(row.karar_tarihi, Str(kwargs.start_date))
    /\ Truthy(kwargs.end_date) => DateLeq(row.karar_tarihi, Str(kwargs.end_date))

\* The relational query fails (and search_decisions returns [], database.py:139-141)
\* when a parameter cannot be read as the column's type.
RemoteQueryFails(kwargs) ==
    \/ Truthy(kwargs.id) /\ kwargs.id.k = "str" /\ ~IsDigit(kwargs.id.s)
    \/ Truthy(kwargs.year) /\ ~IsIsoDate(YearStart(kwargs.year))
    \/ Truthy(kwargs.start_date) /\ ~IsIsoDate(Str(kwargs.start_date))
    \/ Truthy(kwargs.end_date) /\ ~IsIsoDate(Str(kwargs.end_date))

Where(mode, row, kwargs) ==
    IF mode = "local" THEN LocalWhere(row, kwargs)
    ELSE ~RemoteQueryFails(kwargs) /\ RemoteWhere(row, kwargs)

Matching(mode, table, kwargs) ==
    {table[j] : j \in {x \in DOMAIN table : Where(mode, table[x], kwargs)}}

Card(S) == Cardinality(S)

\* The row lists search_decisions may return: the matching rows, LIMIT 20, in
\* the store's order, which no ORDER BY fixes.
SearchResults(mode, table, kwargs) ==
    LET rows == Matching(mode, table, kwargs)
        n == IF Card(rows) < SEARCH_LIMIT THEN Card(rows) ELSE SEARCH_LIMIT
    IN  {q \in [1..n -> rows] : \A a, b \in 1..n : a # b => q[a] # q[b]}


(***************************************************************************)
(* StorageBackend: LocalStorageHandler (local_storage.py) and              *)
(* HFStorageHandler (hf_storage.py).  The store is a function from the     *)
(* name a batch was written under to the list of storage objects in it.    *)
(***************************************************************************)
\* str(uuid.uuid4())[:8], over a two-value alphabet and shortened to one character
UniqueIds == {<<"a">>, <<"b">>}

\* f"batch_{timestamp}_{unique_id}.json"; the locator is this name under the
\* fixed directory or repository URL of the backend.
FileName(timestamp, unique_id) ==
    <<"b", "a", "t", "c", "h", "_">> \o IntToStr(timestamp) \o <<"_">> \o unique_id \o <<".", "j", "s", "o", "n">>

\* open(file_path, "w") + json.dump / create_commit: the name now holds batch_data
Written(store, name, batch_data) ==
    [n \in DOMAIN store \cup {name} |-> IF n = name THEN batch_data ELSE store[n]]

\* What fetch_full_text(url) may return: the document stored under url, or []
\* when the read or the parse fails (local_storage.py:37-43, hf_storage.py:70-79).
FetchResults(store, url) ==
    {<<>>} \cup (IF url.k = "str" /\ url.s \in DOMAIN store THEN {store[url.s]} ELSE {})

(***************************************************************************)
(* Reader.read_decision (reader.py:38-77).                                 *)
(***************************************************************************)
NoContent == PyStr(<<"N", "o", " ", "C", "o", "n", "t", "e", "n", "t">>)

\* A faulty read_decision that prints the first object of the blob whatever
\* its id; the consistency property must tell it from ReadResult.
ReadResultFirstObject(decision_id, cache, table, store, queried, src, target_url, fetched, batch_data) ==
    [decision_id |-> decision_id, cache |-> cache, table |-> table, store |-> store,
     queried |-> queried, src |-> src, target_url |-> target_url,
     fetched |-> fetched, batch_data |-> batch_data,
     outcome |-> IF ~fetched THEN "not_found"
                 ELSE IF batch_data = <<>> THEN "consistency_error" ELSE "content",
     printed |-> IF fetched /\ batch_data # <<>>
                 THEN GetOr(batch_data[1], "icerik_ham", NoContent)
                 ELSE None]

\* One execution of read_decision: what it resolved, fetched and reported.
ReadResult(decision_id, cache, table, store, queried, src, target_url, fetched, batch_data) ==
    LET hits == {p \in 1..Len(batch_data) :
                    Str(Get(batch_data[p], "id")) = Str(decision_id)}
    IN  [decision_id |-> decision_id, cache |-> cache, table |-> table, store |-> store,
         queried |-> queried, src |-> src, target_url |-> target_url,
         fetched |-> fetched, batch_data |-> batch_data,
         outcome |-> IF ~fetched THEN "not_found"
                     ELSE IF hits = {} THEN "consistency_error" ELSE "content",
         printed |-> IF fetched /\ hits # {}
                     THEN GetOr(batch_data[Min(hits)], "icerik_ham", NoContent)
                     ELSE None]

\* Every way read_decision(decision_id, results_cache) can run against the
\* given index and blob store.
ReadOutcomes(mode, table, store, decision_id, cache) ==
    LET hits == {p \in 1..Len(cache) : IntToStr(cache[p].id) = Str(decision_id)}
        cached == IF hits = {} THEN None ELSE cache[Min(hits)].full_text_url
        cachedSrc == IF hits = {} THEN -1 ELSE cache[Min(hits)].id
        Fetch(queried, src, url) ==
            IF ~Truthy(url)
            THEN {ReadResult(decision_id, cache, table, store, queried, src, url, FALSE, <<>>)}
            ELSE {ReadResult(decision_id, cache, table, store, queried, src, url, TRUE, b) :
                     b \in FetchResults(store, url)}
    IN  IF Truthy(cached) THEN Fetch(FALSE, cachedSrc, cached)
        ELSE UNION {IF res = <<>> THEN Fetch(TRUE, cachedSrc, cached)
                    ELSE Fetch(TRUE, res[1].id, res[1].full_text_url) :
                       res \in SearchResults(mode, table,
                                             [NoFilters EXCEPT !.id = decision_id])}


(***************************************************************************)
(* Inputs.                                                                 *)
(***************************************************************************)
Raw(id, Id, daire, esasNo, kararNo, kararTarihi, icerik_ham, ai_ozet, arananKelime) ==
    [id |-> id, Id |-> Id, daire |-> daire, esasNo |-> esasNo, kararNo |-> kararNo,
     kararTarihi |-> kararTarihi, icerik_ham |-> icerik_ham, ai_ozet |-> ai_ozet,
     arananKelime |-> arananKelime]

HeaderText == <<"1", "4", ".", " ", "H", "u", "k", "u", "k", " ", "D", "a", "i", "r", "e", "s", "i", " ", "2", "0", "1", "1", "/", "2", "6", "2", "8", " ", "E", ".", ",", " ", "2", "0", "1", "1", "/", "3", "6", "9", "8", " ", "K", ".", " ", "2", "3", ".", "0", "3", ".", "2", "0", "1", "1", " ", "t", "a", "r", "i", "h", "i", "n", "d", "e">>
\* a legacy item whose text carries the header line and the decision date
LegacyHeader == Raw(PyInt(1), Absent, Absent, Absent, Absent, Absent,
                    PyStr(HeaderText), Absent, Absent)
\* a legacy item without header, its id a string of digits
LegacyPlain == Raw(PyStr(<<"2">>), Absent, Absent, Absent, Absent, Absent,
                   PyStr(<<"k", "a", "r", "a", "r">>), Absent, Absent)
\* a legacy item keyed by "Id"
LegacyCapitalId == Raw(Absent, PyInt(3), Absent, Absent, Absent, Absent,
                       PyStr(<<"m", "e", "t", "i", "n">>), Absent, Absent)
\* a legacy item whose id is not numeric
LegacyTextId == Raw(PyStr(<<"x">>), Absent, Absent, Absent, Absent, Absent,
                    PyStr(<<"m", "e", "t", "i", "n">>), Absent, Absent)
\* an item without id
NoId == Raw(Absent, Absent, Absent, Absent, Absent, Absent,
            PyStr(<<"m", "e", "t", "i", "n">>), Absent, Absent)
\* a pre-structured item as the search API returns it, enriched with its text
ApiItem == Raw(PyInt(1), Absent, PyStr(<<"4", ".", " ", "H", "u", "k", "u", "k", " ", "D", "a", "i", "r", "e", "s", "i">>), PyStr(<<"2", "0", "0", "9", "/", "1">>), PyStr(<<"2", "0", "0", "9", "/", "2">>),
               PyStr(<<"2", "8", ".", "1", "0", ".", "2", "0", "0", "9">>), PyStr(<<"t", "a", "m", " ", "m", "e", "t", "i", "n">>), Absent, PyStr(<<"d", "a", "v", "a">>))

RawItems == {LegacyHeader, LegacyPlain, LegacyCapitalId, LegacyTextId, NoId, ApiItem}

Inputs == UNION {[1..n -> RawItems] : n \in 0..MaxItems}

\* Legacy texts assembled from fragments.
MaxFragments == 3
\* a text whose header line the pattern matches
HeaderFragment == <<"1", "4", ".", " ", "H", "u", "k", "u", "k", " ", "D", "a", "i", "r", "e", "s", "i", " ", "2", "0", "1", "1", "/", "2", "6", "2", "8", " ", "E", ".", ",", " ", "2", "0", "1", "1", "/", "3", "6", "9", "8", " ", "K", ".", " ">>
\* a header line without its K. number
NoKararFragment == <<"3", ".", " ", "C", "e", "z", "a", " ", "D", "a", "i", "r", "e", "s", "i", " ", "2", "0", "1", "4", "/", "4", "5", "5", "7", " ", "E", ".", " ">>
\* a decision date
DateFragment == <<"2", "3", ".", "0", "3", ".", "2", "0", "1", "1", " ", "t", "a", "r", "i", "h", "i", "n", "d", "e", " ">>
\* a date token that is no calendar date
BadDateFragment == <<"3", "1", ".", "0", "2", ".", "2", "0", "1", "1", " ", "t", "a", "r", "i", "h", "i", "n", "d", "e", " ">>
\* markup the cleaning replaces by blanks
MarkupFragment == <<"<", "b", ">", "k", "a", "r", "a", "r", "<", "/", "b", ">", "&", "n", "b", "s", "p", ";">>
\* plain words
PlainFragment == <<"o", "y", "b", "i", "r", "l", "i", "g", "i", " ", "i", "l", "e", " ">>
Fragments == {HeaderFragment, NoKararFragment, DateFragment, BadDateFragment, MarkupFragment, PlainFragment}
FragmentLists == UNION {[1..n -> Fragments] : n \in 1..MaxFragments}

RECURSIVE TextOf(_)
\* the text made of the fragments fs, in order
TextOf(fs) == IF fs = <<>> THEN <<>> ELSE Head(fs) \o TextOf(Tail(fs))

\* a legacy item with the given content, as a dump row carries it
LegacyItem(content) == Raw(PyInt(7), Absent, Absent, Absent, Absent, Absent,
                           PyStr(content), Absent, Absent)
\* a dump row that carries a daire column of its own beside a text without header
LegacyDaireItem == Raw(PyInt(7), Absent, PyStr(<<"A">>), Absent, Absent, Absent,
                       PyStr(PlainFragment), Absent, Absent)
ExtractItems == {LegacyItem(TextOf(fs)) : fs \in FragmentLists} \cup {LegacyDaireItem}
AllItems == RawItems \cup ExtractItems

\* what the loop body of process_data / process_file appends for each record
DataItems == [record \in AllItems |-> DataItem(record)]
FileItems == [record \in AllItems |-> FileItem(record)]

\* ids read_decision is asked for
ReadIds == {PyInt(0), PyInt(1), PyInt(3)}

\* filter sets Reader.search is called with
ReaderFilters == {[NoFilters EXCEPT !.id = PyInt(1)], [NoFilters EXCEPT !.id = PyInt(3)]}

(***************************************************************************)
(* Config (config.py) and the construction of the handlers                 *)
(* (uploader.py:15-27, reader.py:9-16).                                    *)
(***************************************************************************)
Variables == {"HF_TOKEN", "HF_REPO_ID", "DATABASE_URL", "SUPABASE_URL", "SUPABASE_KEY"}
Environments == [Variables -> BOOLEAN]
FullEnv == [v \in Variables |-> TRUE]

\* the list `missing` of Config.validate (config.py:29-35)
Missing(e) ==
    {v \in {"HF_TOKEN", "HF_REPO_ID"} : ~e[v]}
       \cup (IF ~e["DATABASE_URL"] /\ (~e["SUPABASE_URL"] \/ ~e["SUPABASE_KEY"])
            THEN {"DATABASE_URL or (SUPABASE_URL + SUPABASE_KEY)"} ELSE {})

\* Config.validate raises ValueError (config.py:26-38)
ValidateRaises(m, e) == m # "local" /\ Missing(e) # {}

\* what a constructor that ran to its end leaves in `built`
Components(m) ==
    IF m = "local" THEN <<"LocalDatabaseHandler", "LocalStorageHandler">>
    ELSE <<"psycopg2.connect", "DatabaseHandler", "HFStorageHandler">>

(***************************************************************************)
(* State.                                                                  *)
(***************************************************************************)
VARIABLES
    mode,      \* Config.STORAGE_MODE
    index,     \* the table `decisions`
    blobs,     \* the stored batch documents, by name
    clock,     \* int(time.time())
    pc,        \* where the Uploader is: idle, loop, upload, index, done, raised
    op,        \* the running method: process_data or process_file
    data,      \* its input list
    i,         \* position of the next record in data (1-based)
    batch,     \* the local list `batch`
    raw_url,   \* raw_url of _upload_and_index
    exc,       \* the exception that ended the run, "" for none
    runs,      \* ingest runs finished
    flush,     \* flushes (_upload_and_index calls) begun by the running ingest
    log,       \* the storage and index calls of the running ingest, in order
    query,     \* the filters of the last search_decisions call
    results,   \* what the last search returned
    rd,        \* the last execution of Reader.read_decision
    env,       \* which environment variables Config read a non-empty value for
    built,     \* the handlers constructed and the connections attempted, in order
    txn,       \* the open index transaction of the running flush, NoTxn for none
    procs      \* the Uploader processes that ingest concurrently, each at one flush

vars == <<mode, index, blobs, clock, pc, op, data, i, batch, raw_url, exc, runs,
          flush, log, query, results, rd, env, built, txn, procs>>

configVars == <<mode, env, built>>
storeVars == <<configVars, index, blobs, clock, txn, procs>>
runVars == <<pc, op, data, i, batch, raw_url, exc, runs, flush, log>>
readerVars == <<query, results, rd>>

EmptyTable == [j \in {} |-> None]
\* no connection is open
NoTxn == [table |-> EmptyTable, next |-> 0]
\* the concurrent Uploader processes, and none of them started
Procs == {"A", "B"}
NoProcs == [p \in Procs |-> [pc |-> "idle", op |-> "", batch |-> <<>>, raw_url |-> None]]
NoRead == ReadResult(None, <<>>, EmptyTable, EmptyTable, FALSE, -1, None, FALSE, <<>>)

Init ==
    /\ mode \in Modes
    /\ index = EmptyTable
    /\ blobs = EmptyTable
    /\ clock = 0
    /\ pc = "idle"
    /\ op = ""
    /\ data = <<>>
    /\ i = 1
    /\ batch = <<>>
    /\ raw_url = None
    /\ exc = ""
    /\ runs = 0
    /\ flush = 0
    /\ log = <<>>
    /\ query = NoFilters
    /\ results = <<>>
    /\ rd = NoRead
    /\ env = FullEnv
    /\ built = Components(mode)
    /\ procs = NoProcs
    /\ txn = NoTxn

(***************************************************************************)
(* Uploader.process_data / process_file and _upload_and_index.             *)
(***************************************************************************)
Call(name, no, sobjs, metas, ok, url) ==
    [call |-> name, flush |-> no, sobjs |-> sobjs, metas |-> metas,
     ok |-> ok, url |-> url]

Start(method, d) ==
    /\ pc = "idle"
    /\ runs < MaxRuns
    /\ pc' = "loop"
    /\ op' = method
    /\ data' = d
    /\ i' = 1
    /\ batch' = <<>>
    /\ raw_url' = None
    /\ exc' = ""
    /\ flush' = 0
    /\ log' = <<>>
    /\ query' = NoFilters
    /\ results' = <<>>
    /\ rd' = NoRead
    /\ UNCHANGED <<storeVars, runs>>

StartProcessData ==
    /\ pc = "idle"
    /\ runs < MaxRuns
    /\ \E d \in Inputs : Start("process_data", d)

StartProcessFile ==
    /\ pc = "idle"
    /\ runs < MaxRuns
    /\ \E d \in Inputs : Start("process_file", d)

\* json.load fails: process_file prints a diagnostic and returns (uploader.py:184-189)
ProcessFileInvalidJson ==
    /\ pc = "idle"
    /\ runs < MaxRuns
    /\ pc' = "done"
    /\ op' = "process_file"
    /\ data' = <<>>
    /\ i' = 1
    /\ batch' = <<>>
    /\ raw_url' = None
    /\ exc' = ""
    /\ flush' = 0
    /\ log' = <<>>
    /\ query' = NoFilters
    /\ results' = <<>>
    /\ rd' = NoRead
    /\ UNCHANGED <<storeVars, runs>>

\* The loop body appended item: flush when the batch is full (uploader.py:161, 276)
Appended(item) ==
    /\ batch' = Append(batch, item)
    /\ pc' = IF Len(batch) + 1 >= BATCH_SIZE THEN "upload" ELSE "loop"
    /\ flush' = IF Len(batch) + 1 >= BATCH_SIZE THEN flush + 1 ELSE flush

\* one iteration of the loop of process_data (uploader.py:90-163)
IterateData ==
    /\ pc = "loop"
    /\ op = "process_data"
    /\ i <= Len(data)
    /\ i' = i + 1
    /\ IF DataDrops(data[i])
       THEN UNCHANGED <<batch, pc, flush>>
       ELSE Appended(DataItems[data[i]])
    /\ UNCHANGED <<storeVars, op, data, raw_url, exc, runs, log, readerVars>>

\* one iteration of the loop of process_file (uploader.py:195-278)
IterateFile ==
    /\ pc = "loop"
    /\ op = "process_file"
    /\ i <= Len(data)
    /\ i' = i + 1
    /\ IF FileDrops(data[i])
       THEN UNCHANGED <<batch, pc, exc, flush>>
       ELSE IF FileRaises(data[i]) # ""
            THEN pc' = "raised" /\ exc' = FileRaises(data[i]) /\ UNCHANGED <<batch, flush>>
            ELSE Appended(FileItems[data[i]]) /\ UNCHANGED exc
    /\ UNCHANGED <<storeVars, op, data, raw_url, runs, log, readerVars>>

\* the input is exhausted: flush what remains (uploader.py:166-167, 281-282)
LoopExit ==
    /\ pc = "loop"
    /\ i > Len(data)
    /\ pc' = IF batch # <<>> THEN "upload" ELSE "done"
    /\ flush' = IF batch # <<>> THEN flush + 1 ELSE flush
    /\ UNCHANGED <<storeVars, op, data, i, batch, raw_url, exc, runs, log, readerVars>>

\* A faulty storage_data that keeps the first storage object only; the
\* one-locator property must tell it from StorageData.
StorageDataFirstOnly(b) ==
    [p \in 1..(IF Len(b) > 1 THEN 1 ELSE Len(b)) |-> b[p].storage_object]

\* storage_data of _upload_and_index (uploader.py:287)
StorageData(b) == [p \in 1..Len(b) |-> b[p].storage_object]

\* A faulty metadata_list that never sets full_text_url; the ordering
\* property must tell it from MetadataList.
MetadataListWithoutLocator(b, url) == [p \in 1..Len(b) |-> b[p].metadata]

\* metadata_list of _upload_and_index (uploader.py:301-305)
MetadataList(b, url) ==
    [p \in 1..Len(b) |-> [b[p].metadata EXCEPT !.full_text_url = url]]

\* A faulty flush that returns to the loop with the index write still to
\* come; the sequencing property must tell it from AfterUpload.
AfterUploadReturnsEarly(url) == "loop"

\* Where _upload_and_index goes once upload_batch returned url (uploader.py:296-298)
AfterUpload(url) == IF ~Truthy(url) THEN "loop" ELSE "index"

\* upload_batch returns: the batch document is written under a fresh name, or
\* the input is empty and "" is returned without a write.
UploadReturns ==
    /\ pc = "upload"
    /\ \E timestamp \in clock..MaxClock, unique_id \in UniqueIds :
          LET storage_data == StorageData(batch)
              name == FileName(timestamp, unique_id)
              url == IF storage_data = <<>> THEN EmptyStr ELSE PyStr(name)
          IN  /\ clock' = timestamp
              /\ blobs' = IF storage_data = <<>> THEN blobs
                          ELSE Written(blobs, name, storage_data)
              /\ raw_url' = url
              /\ pc' = AfterUpload(url)
              /\ batch' = IF AfterUpload(url) = "loop" THEN <<>> ELSE batch
              /\ log' = Append(log, Call("upload_batch", flush, storage_data,
                                         <<>>, TRUE, url))
    /\ UNCHANGED <<configVars, procs, txn, index, op, data, i, exc, runs, flush, readerVars>>

\* A faulty handler that goes on to the index write after upload_batch
\* raised; the no-index-write property must tell it from UploadRaises.
UploadRaisesThenIndexes ==
    /\ pc = "upload"
    /\ batch # <<>>
    /\ pc' = "index"
    /\ log' = Append(log, Call("upload_batch", flush, StorageData(batch),
                               <<>>, FALSE, None))
    /\ UNCHANGED <<storeVars, op, data, i, batch, raw_url, exc, runs, flush, readerVars>>

\* A faulty handler that tries the same batch again after upload_batch
\* raised; the no-retry property must tell it from UploadRaises.
UploadRaisesRetries ==
    /\ pc = "upload"
    /\ batch # <<>>
    /\ log' = Append(log, Call("upload_batch", flush, StorageData(batch),
                               <<>>, FALSE, None))
    /\ UNCHANGED <<storeVars, pc, op, data, i, batch, raw_url, exc, runs, flush, readerVars>>

\* upload_batch raises: the batch is skipped (uploader.py:292-294)
UploadRaises ==
    /\ pc = "upload"
    /\ StorageData(batch) # <<>>
    /\ pc' = "loop"
    /\ batch' = <<>>
    /\ log' = Append(log, Call("upload_batch", flush, StorageData(batch),
                               <<>>, FALSE, None))
    /\ UNCHANGED <<storeVars, op, data, i, raw_url, exc, runs, flush, readerVars>>

\* upsert_metadata returns (uploader.py:308-309)
IndexReturns ==
    /\ pc = "index"
    /\ ~UpsertRaises(mode, MetadataList(batch, raw_url))
    /\ index' = Upserted(mode, index, MetadataList(batch, raw_url))
    /\ pc' = "loop"
    /\ batch' = <<>>
    /\ log' = Append(log, Call("upsert_metadata", flush, <<>>,
                               MetadataList(batch, raw_url), TRUE, raw_url))
    /\ UNCHANGED <<configVars, procs, txn, blobs, clock, op, data, i, raw_url, exc, runs, flush, readerVars>>

\* upsert_metadata raises (database.py:85-87, local_database.py:56-58): nothing
\* in _upload_and_index or its callers catches it.
IndexRaises ==
    /\ pc = "index"
    /\ pc' = "raised"
    /\ exc' = "upsert_metadata"
    /\ log' = Append(log, Call("upsert_metadata", flush, <<>>,
                               MetadataList(batch, raw_url), FALSE, raw_url))
    /\ UNCHANGED <<storeVars, op, data, i, batch, raw_url, runs, flush, readerVars>>

\* the method returned or raised: the process is done with this input
EndRun ==
    /\ pc \in {"done", "raised"}
    /\ pc' = "idle"
    /\ runs' = runs + 1
    /\ op' = ""
    /\ data' = <<>>
    /\ i' = 1
    /\ batch' = <<>>
    /\ raw_url' = None
    /\ exc' = ""
    /\ flush' = 0
    /\ log' = <<>>
    /\ UNCHANGED <<storeVars, readerVars>>

(***************************************************************************)
(* Reader, run from its command line while no ingest is in progress: one   *)
(* search at most, then one read_decision, after which the process exits   *)
(* (reader.py:79-114).  What it printed is gone when the next ingest       *)
(* starts.                                                                 *)
(***************************************************************************)
\* Reader.search (reader.py:18-36)
Search ==
    /\ pc = "idle"
    /\ query = NoFilters
    /\ rd = NoRead
    /\ \E kwargs \in ReaderFilters :
          /\ query' = kwargs
          /\ results' \in SearchResults(mode, index, kwargs)
    /\ rd' = NoRead
    /\ UNCHANGED <<storeVars, runVars>>

\* Reader.read_decision (reader.py:38-77), without or with the last results as
\* cache; the command line exits after it (reader.py:111-114).
ReadDecision ==
    /\ pc = "idle"
    /\ rd = NoRead
    /\ \E decision_id \in ReadIds, cache \in {<<>>, results} :
          rd' \in ReadOutcomes(mode, index, blobs, decision_id, cache)
    /\ UNCHANGED <<storeVars, runVars, query, results>>

Next ==
    \/ StartProcessData
    \/ StartProcessFile
    \/ ProcessFileInvalidJson
    \/ IterateData
    \/ IterateFile
    \/ LoopExit
    \/ UploadReturns
    \/ UploadRaises
    \/ IndexReturns
    \/ IndexRaises
    \/ EndRun
    \/ Search
    \/ ReadDecision

Spec == Init /\ [][Next]_vars



(***************************************************************************)
(* The MetadataIndex handlers called directly: upsert_metadata with any    *)
(* entry list, search_decisions with any combination of filters.  A search *)
(* leaves the table as it is, so calls are explored from the states the    *)
(* writes leave; log holds the last upsert_metadata call.                  *)
(***************************************************************************)
Entry(id, daire, esas_no, karar_no, karar_tarihi, ozet, full_text_url) ==
    [id |-> id, daire |-> daire, esas_no |-> esas_no, karar_no |-> karar_no,
     karar_tarihi |-> karar_tarihi, ozet |-> ozet, full_text_url |-> full_text_url]

EsasValue == PyStr(<<"2", "0", "2", "0", "/", "1">>)
KararValue == PyStr(<<"2", "0", "2", "0", "/", "2">>)
OzetValue == PyStr(<<"d", "a", "v", "a">>)
\* a complete entry for id 5
FullEntry == Entry(5, PyStr(<<"A">>), EsasValue, KararValue,
                   PyStr(<<"2", "0", "2", "0", "-", "0", "5", "-", "0", "1">>),
                   OzetValue, PyStr(<<"u", "1">>))
\* an entry for the same id with nulls where FullEntry has values
NullEntry == Entry(5, None, None, None, None, None, PyStr(<<"u", "2">>))
\* an entry for another id, dated late in the same year
LateEntry == Entry(6, PyStr(<<"A">>), EsasValue, KararValue,
                   PyStr(<<"2", "0", "2", "0", "-", "1", "2", "-", "3", "1">>),
                   OzetValue, PyStr(<<"u", "1">>))

\* an entry that differs from the others in every field
OtherEntry == Entry(7, PyStr(<<"B">>), KararValue, EsasValue,
                    PyStr(<<"2", "0", "1", "9", "-", "0", "1", "-", "0", "1">>),
                    PyStr(<<"i", "c", "r", "a">>), PyStr(<<"u", "3">>))

Entries == {FullEntry, NullEntry, LateEntry, OtherEntry}
EntryLists == UNION {[1..n -> Entries] : n \in 0..MaxEntries}

DateValue == PyStr(<<"2", "0", "2", "0", "-", "0", "6", "-", "0", "1">>)
\* every combination of supplied filters, id = 0 among them
SearchFilters ==
    [id : {Absent, PyInt(0), PyInt(5)},
     daire : {Absent, PyStr(<<"a">>)},
     esas_no : {Absent, EsasValue},
     karar_no : {Absent, KararValue},
     keyword : {Absent, OzetValue},
     year : {Absent, PyInt(2020)},
     start_date : {Absent, DateValue},
     end_date : {Absent, DateValue}]

InitIndex ==
    /\ mode \in Modes
    /\ index = EmptyTable
    /\ blobs = EmptyTable
    /\ clock = 0
    /\ pc = "direct"
    /\ op = ""
    /\ data = <<>>
    /\ i = 1
    /\ batch = <<>>
    /\ raw_url = None
    /\ exc = ""
    /\ runs = 0
    /\ flush = 0
    /\ log = <<>>
    /\ query = NoFilters
    /\ results = <<>>
    /\ rd = NoRead
    /\ env = FullEnv
    /\ built = Components(mode)
    /\ procs = NoProcs
    /\ txn = NoTxn

\* upsert_metadata(metadata_list) (database.py:46-87, local_database.py:29-60)
UpsertCall ==
    /\ pc = "direct"
    /\ query = NoFilters
    /\ \E metadata_list \in EntryLists :
          /\ index' = IF UpsertRaises(mode, metadata_list) THEN index
                      ELSE Upserted(mode, index, metadata_list)
          /\ log' = <<Call("upsert_metadata", 0, <<>>, metadata_list,
                           ~UpsertRaises(mode, metadata_list), None)>>
    /\ results' = <<>>
    /\ UNCHANGED <<configVars, procs, txn, blobs, clock, pc, op, data, i, batch, raw_url, exc, runs,
                   flush, query, rd>>

\* search_decisions with the filters kwargs (database.py:89-141, local_database.py:62-112)
SearchCall ==
    /\ pc = "direct"
    /\ query = NoFilters
    /\ \E kwargs \in SearchFilters :
          /\ query' = kwargs
          /\ results' \in SearchResults(mode, index, kwargs)
    /\ UNCHANGED <<storeVars, runVars, rd>>

NextIndex ==
    \/ UpsertCall
    \/ SearchCall

SpecIndex == InitIndex /\ [][NextIndex]_vars

(***************************************************************************)
(* Construction of an Uploader or a Reader from the environment            *)
(* (uploader.py:15-27, reader.py:9-16): pc is new, index, storage, ready   *)
(* or failed; op is the class under construction.                          *)
(***************************************************************************)
InitStartup ==
    /\ mode \in Modes
    /\ env \in Environments
    /\ built = <<>>
    /\ procs = NoProcs
    /\ txn = NoTxn
    /\ op \in {"Uploader", "Reader"}
    /\ pc = "new"
    /\ index = EmptyTable
    /\ blobs = EmptyTable
    /\ clock = 0
    /\ data = <<>>
    /\ i = 1
    /\ batch = <<>>
    /\ raw_url = None
    /\ exc = ""
    /\ runs = 0
    /\ flush = 0
    /\ log = <<>>
    /\ query = NoFilters
    /\ results = <<>>
    /\ rd = NoRead

startupFrame == <<mode, env, op, index, blobs, clock, data, i, batch, raw_url, runs,
                  flush, log, query, results, rd, txn, procs>>

\* Config.validate() at the head of __init__ (uploader.py:16, reader.py:10)
Validate ==
    /\ pc = "new"
    /\ pc' = IF ValidateRaises(mode, env) THEN "failed" ELSE "index"
    /\ exc' = IF ValidateRaises(mode, env) THEN "ValueError" ELSE exc
    /\ UNCHANGED <<startupFrame, built>>

\* LocalDatabaseHandler() (local_database.py:6-27)
BuildLocalIndex ==
    /\ pc = "index"
    /\ mode = "local"
    /\ built' = Append(built, "LocalDatabaseHandler")
    /\ pc' = "storage"
    /\ UNCHANGED <<startupFrame, exc>>

\* DatabaseHandler() (database.py:7-44): validate again, then init_db connects
\* with Config.DATABASE_URL, empty or not; the connection is made or refused.
BuildRemoteIndex ==
    /\ pc = "index"
    /\ mode # "local"
    /\ ~ValidateRaises(mode, env)
    /\ \E connected \in BOOLEAN :
          /\ built' = IF connected
                      THEN built \o <<"psycopg2.connect", "DatabaseHandler">>
                      ELSE Append(built, "psycopg2.connect")
          /\ pc' = IF connected THEN "storage" ELSE "failed"
          /\ exc' = IF connected THEN exc ELSE "OperationalError"
    /\ UNCHANGED startupFrame

\* LocalStorageHandler() / HFStorageHandler() (local_storage.py:8-11, hf_storage.py:14-18)
BuildStorage ==
    /\ pc = "storage"
    /\ built' = Append(built, IF mode = "local" THEN "LocalStorageHandler"
                              ELSE "HFStorageHandler")
    /\ pc' = "ready"
    /\ UNCHANGED <<startupFrame, exc>>

NextStartup ==
    \/ Validate
    \/ BuildLocalIndex
    \/ BuildRemoteIndex
    \/ BuildStorage

SpecStartup == InitStartup /\ [][NextStartup]_vars

(***************************************************************************)
(* Legacy items over texts assembled from fragments, ingested one at a     *)
(* time: what extract_metadata finds in them and what becomes of the item. *)
(***************************************************************************)
InitExtract ==
    /\ mode \in Modes
    /\ env = FullEnv
    /\ built = Components(mode)
    /\ procs = NoProcs
    /\ txn = NoTxn
    /\ index = EmptyTable
    /\ blobs = EmptyTable
    /\ clock = 0
    /\ pc = "loop"
    /\ op \in {"process_data", "process_file"}
    /\ data \in {<<item>> : item \in ExtractItems}
    /\ i = 1
    /\ batch = <<>>
    /\ raw_url = None
    /\ exc = ""
    /\ runs = 0
    /\ flush = 0
    /\ log = <<>>
    /\ query = NoFilters
    /\ results = <<>>
    /\ rd = NoRead

NextExtract ==
    \/ IterateData
    \/ IterateFile
    \/ LoopExit
    \/ UploadReturns
    \/ UploadRaises
    \/ IndexReturns
    \/ IndexRaises

SpecExtract == InitExtract /\ [][NextExtract]_vars

(***************************************************************************)
(* Properties.                                                             *)
(***************************************************************************)
LastCall == log[Len(log)]
BatchObjects == [q \in 1..Len(batch) |-> batch[q].storage_object]
\* the blob under locator url holds an object whose str(id) is str(id)
Holds(store, url, id) ==
    /\ url.k = "str"
    /\ url.s \in DOMAIN store
    /\ \E p \in 1..Len(store[url.s]) : Str(Get(store[url.s][p], "id")) = IntToStr(id)

\* C1: after any ingest runs, every index row with a non-null full_text_url is
\* retrievable: the blob under its locator holds an object whose
\* string-normalised id is the row's string-normalised id.
C1_Retrievable ==
    \A id \in DOMAIN index :
        index[id].full_text_url.k # "none" => Holds(blobs, index[id].full_text_url, id)

\* C2: upsert_metadata is called for a batch only right after upload_batch of the
\* same flush returned a non-empty locator, which every entry then carries; no
\* index row lacks a locator or names a blob that is not written, and when the
\* index write begins the blob under raw_url holds the batch.
C2_IndexAfterBlob ==
    /\ \A p \in 1..Len(log) :
          log[p].call = "upsert_metadata" =>
             /\ p > 1
             /\ log[p - 1].call = "upload_batch"
             /\ log[p - 1].flush = log[p].flush
             /\ log[p - 1].ok
             /\ Truthy(log[p - 1].url)
             /\ \A q \in 1..Len(log[p].metas) :
                   log[p].metas[q].full_text_url = log[p - 1].url
    /\ \A id \in DOMAIN index :
          /\ Truthy(index[id].full_text_url)
          /\ index[id].full_text_url.s \in DOMAIN blobs
    /\ pc = "index" =>
          /\ Truthy(raw_url)
          /\ raw_url.s \in DOMAIN blobs
          /\ blobs[raw_url.s] = BatchObjects

\* an index write of the running ingest has returned
C2_Witness ==
    /\ pc = "loop"
    /\ log # <<>>
    /\ LastCall.call = "upsert_metadata"
    /\ LastCall.ok
    /\ index # EmptyTable

\* C3: a flush whose blob write fails (upload_batch raises or returns an empty
\* locator) leaves the index as it was and abandons the batch; the index changes
\* only in a flush whose upload_batch returned a locator, and no upsert_metadata
\* call follows a failed upload_batch of the same flush.
C3_FailedBlobWriteWritesNothing ==
    [][/\ (pc = "upload" /\ pc' # "index") =>
             (index' = index /\ pc' = "loop" /\ batch' = <<>>)
       /\ (index' # index) =>
             /\ pc = "index"
             /\ log # <<>>
             /\ LastCall.call = "upload_batch"
             /\ LastCall.ok
             /\ Truthy(LastCall.url)
             /\ LastCall.flush = flush
       /\ \A p \in 1..Len(log') :
             (log'[p].call = "upload_batch" /\ (~log'[p].ok \/ ~Truthy(log'[p].url))) =>
                 (p = Len(log') \/ log'[p + 1].flush # log'[p].flush)]_vars

\* the second flush of a run failed at the blob write, after a first one was indexed
C3_Witness ==
    /\ pc = "loop"
    /\ log # <<>>
    /\ LastCall.call = "upload_batch"
    /\ ~LastCall.ok
    /\ batch = <<>>
    /\ index # EmptyTable

\* C4: a failed storage call, upload_batch or upsert_metadata, never ends the
\* run: the batch is abandoned and the run goes on with the next batch.
C4_RunContinues ==
    \A p \in 1..Len(log) : ~log[p].ok => ~(pc = "raised" /\ exc = log[p].call)

\* C5: an item whose id is missing or not numeric is dropped without an error,
\* so every id in a batch or in the index is a positive integer and no run ends
\* on converting an id.
C5_IdsPositive ==
    /\ \A p \in 1..Len(batch) : batch[p].metadata.id > 0
    /\ \A id \in DOMAIN index : id > 0
    /\ exc # "ValueError"

\* C6: upload_batch is called exactly once per flush, with all storage objects
\* of the batch; every entry of the upsert_metadata call of that flush carries
\* the one locator that call returned, and so does every index row written.
C6_OneLocatorPerBatch ==
    /\ \A p, q \in 1..Len(log) :
          (log[p].call = "upload_batch" /\ log[q].call = "upload_batch"
             /\ log[p].flush = log[q].flush) => p = q
    /\ \A f \in 1..flush :
          (f < flush \/ pc # "upload") =>
             \E p \in 1..Len(log) : log[p].call = "upload_batch" /\ log[p].flush = f
    /\ \A p \in 1..Len(log) :
          log[p].call = "upsert_metadata" =>
             /\ p > 1
             /\ log[p - 1].call = "upload_batch"
             /\ log[p - 1].flush = log[p].flush
             /\ Len(log[p - 1].sobjs) = Len(log[p].metas)
             /\ \A q \in 1..Len(log[p].metas) :
                   log[p].metas[q].full_text_url = log[p - 1].url
    /\ pc = "index" =>
          /\ batch # <<>>
          /\ LastCall.call = "upload_batch"
          /\ LastCall.sobjs = BatchObjects
          /\ LastCall.url = raw_url
    /\ (log # <<>> /\ LastCall.call = "upsert_metadata" /\ LastCall.ok) =>
          \A q \in 1..Len(LastCall.metas) :
              /\ LastCall.metas[q].id \in DOMAIN index
              /\ index[LastCall.metas[q].id].full_text_url = LastCall.url

\* a full batch of two different ids was flushed and indexed under one locator
C6_Witness ==
    /\ log # <<>>
    /\ LastCall.call = "upsert_metadata"
    /\ LastCall.ok
    /\ Len(LastCall.metas) = BATCH_SIZE
    /\ LastCall.metas[1].id # LastCall.metas[2].id
    /\ index[LastCall.metas[1].id].full_text_url = index[LastCall.metas[2].id].full_text_url

\* the last entry of metadata_list written for id
LastFor(metadata_list, id) ==
    metadata_list[Max({p \in 1..Len(metadata_list) : metadata_list[p].id = id})]

\* C7: after an upsert_metadata call, in either variant and also when the list
\* repeats an id, the index holds for each id of the list one row whose fields
\* are those of the last entry written for that id, and no row of another id is
\* removed.
C7_LastWriteWins ==
    [][pc = "direct" =>
          /\ \A p \in 1..Len(log') : \A q \in 1..Len(log'[p].metas) :
                /\ log'[p].metas[q].id \in DOMAIN index'
                /\ index'[log'[p].metas[q].id] =
                      Row(LastFor(log'[p].metas, log'[p].metas[q].id))
          /\ \A id \in DOMAIN index : id \in DOMAIN index']_vars

Supplied(v) == v.k # "absent"
\* row satisfies every filter kwargs supplies
Satisfies(row, kwargs) ==
    /\ Supplied(kwargs.id) => IdEquals(row.id, kwargs.id)
    /\ Supplied(kwargs.daire) => Like(row.daire, Str(kwargs.daire))
    /\ Supplied(kwargs.esas_no) => TextEquals(row.esas_no, kwargs.esas_no)
    /\ Supplied(kwargs.karar_no) => TextEquals(row.karar_no, kwargs.karar_no)
    /\ Supplied(kwargs.keyword) =>
          Like(row.ozet, Str(kwargs.keyword)) \/ Like(row.daire, Str(kwargs.keyword))
    /\ Supplied(kwargs.year) => YearEquals(row.karar_tarihi, kwargs.year)
    /\ Supplied(kwargs.start_date) => DateGeq(row.karar_tarihi, Str(kwargs.start_date))
    /\ Supplied(kwargs.end_date) => DateLeq(row.karar_tarihi, Str(kwargs.end_date))

\* C8: search_decisions returns at most 20 rows (SEARCH_LIMIT here), and every
\* row it returns satisfies every supplied filter, id = 0 and end_date included,
\* in both variants.
C8_SearchSound ==
    /\ Len(results) <= SEARCH_LIMIT
    /\ \A p \in 1..Len(results) : Satisfies(results[p], query)

\* C9: read_decision(id) for an id with no index row and no cache row reports
\* "not found" without calling fetch_full_text.
C9_NotFoundWithoutFetch ==
    (/\ rd.decision_id # None
     /\ \A id \in DOMAIN rd.table : IntToStr(id) # Str(rd.decision_id)
     /\ \A p \in 1..Len(rd.cache) : IntToStr(rd.cache[p].id) # Str(rd.decision_id))
        => (rd.outcome = "not_found" /\ ~rd.fetched)

\* C10: when fetch_full_text yields an empty list, or a blob without an object
\* whose string-normalised id is the requested one, read_decision reports the
\* consistency failure and prints no content.
C10_ConsistencyFailure ==
    (/\ rd.fetched
     /\ \A p \in 1..Len(rd.batch_data) :
           Str(Get(rd.batch_data[p], "id")) # Str(rd.decision_id))
        => (rd.outcome = "consistency_error" /\ rd.printed = None)

\* read_decision fetched a blob that holds objects, none of them with the id
C10_Witness ==
    /\ rd.fetched
    /\ rd.batch_data # <<>>
    /\ \A p \in 1..Len(rd.batch_data) :
          Str(Get(rd.batch_data[p], "id")) # Str(rd.decision_id)
    /\ rd.outcome = "consistency_error"

\* C11: in remote mode with a credential missing (HF_TOKEN, HF_REPO_ID, or
\* the connection string DATABASE_URL the relational index connects with),
\* construction fails before any handler is built or any connection is
\* attempted; in local mode construction never fails.
C11_FailsBeforeAnyComponent ==
    /\ (mode = "remote" /\ (~env["HF_TOKEN"] \/ ~env["HF_REPO_ID"] \/ ~env["DATABASE_URL"])) =>
          (built = <<>> /\ pc \in {"new", "failed"})
    /\ mode = "local" => exc = ""

\* the fragments the input text of the running ingest was put together from
FragmentTable == [text \in {TextOf(fs) : fs \in FragmentLists} |->
                     CHOOSE fs \in FragmentLists : TextOf(fs) = text]
FragmentsOf(text) == FragmentTable[text]

\* the field names of every result of extract_metadata on these texts
ExtractFieldNames == {DOMAIN extract_metadata(TextOf(fs)) : fs \in FragmentLists}

\* What the header pattern yields on a text of these fragments: it needs an
\* "... K." token, which only HeaderFragment has, and it starts at the first
\* chamber name before it.
ExpectedHeader(fs) ==
    IF \A p \in 1..Len(fs) : fs[p] # HeaderFragment THEN <<None, None, None>>
    ELSE LET first == Min({p \in 1..Len(fs) : fs[p] \in {HeaderFragment, NoKararFragment}})
         IN  IF fs[first] = HeaderFragment
             THEN <<PyStr(<<"1", "4", ".", " ", "H", "u", "k", "u", "k", " ", "D", "a", "i", "r", "e", "s", "i">>), PyStr(<<"2", "0", "1", "1", "/", "2", "6", "2", "8">>),
                    PyStr(<<"2", "0", "1", "1", "/", "3", "6", "9", "8">>)>>
             ELSE <<PyStr(<<"3", ".", " ", "C", "e", "z", "a", " ", "D", "a", "i", "r", "e", "s", "i">>), PyStr(<<"2", "0", "1", "4", "/", "4", "5", "5", "7">>),
                    PyStr(<<"2", "0", "1", "1", "/", "3", "6", "9", "8">>)>>

\* What the date pattern yields: the first date token decides.
ExpectedDate(fs) ==
    LET dates == {p \in 1..Len(fs) : fs[p] \in {DateFragment, BadDateFragment}}
    IN  IF dates # {} /\ fs[Min(dates)] = DateFragment
        THEN PyStr(<<"2", "0", "1", "1", "-", "0", "3", "-", "2", "3">>) ELSE None

\* the four extracted fields of an index entry are the expected ones
ExtractedAsExpected(m, fs) ==
    /\ <<m.daire, m.esas_no, m.karar_no>> = ExpectedHeader(fs)
    /\ m.karar_tarihi = ExpectedDate(fs)

\* C12: extracting metadata from a legacy record's text never ends the run;
\* it yields exactly daire, esas_no, karar_no and karar_tarihi; without a
\* header match the first three are null, without a date match or with an
\* invalid first date token karar_tarihi is null; the item is still appended
\* to its batch and flushed.
C12_ExtractionNeverFails ==
    LET fs == FragmentsOf(data[1].icerik_ham.s)
    IN  /\ exc \in {"", "upsert_metadata"}
        /\ ExtractFieldNames = {{"daire", "esas_no", "karar_no", "karar_tarihi"}}
        /\ i > 1 => (Len(batch) = 1 \/ log # <<>>)
        /\ \A p \in 1..Len(batch) : ExtractedAsExpected(batch[p].metadata, fs)
        /\ \A p \in 1..Len(log) :
              /\ log[p].call = "upload_batch" => Len(log[p].sobjs) = 1
              /\ log[p].call = "upsert_metadata" =>
                    /\ Len(log[p].metas) = 1
                    /\ ExtractedAsExpected(log[p].metas[1], fs)
        /\ pc = "done" => log # <<>>
        /\ \A id \in DOMAIN index : ExtractedAsExpected(index[id], fs)

\* a text without a "K." header whose first date token is 31.02.2011 was
\* processed to the end and its entry is in the index with the four fields null
C12_Witness ==
    LET fs == FragmentsOf(data[1].icerik_ham.s)
    IN  /\ pc = "done"
        /\ \E p \in 1..Len(fs) : fs[p] = BadDateFragment
        /\ \E p \in 1..Len(fs) : fs[p] = NoKararFragment
        /\ ExpectedHeader(fs) = <<None, None, None>>
        /\ ExpectedDate(fs) = None
        /\ \E id \in DOMAIN index :
              /\ index[id].daire = None
              /\ index[id].karar_tarihi = None

\* the records of the input the running method does not skip, in input order
Accepted ==
    SelectSeq(data, LAMBDA record :
                 IF op = "process_data" THEN ~DataDrops(record) ELSE ~FileDrops(record))

\* the storage object the running method makes of a record
ObjectOf(record) ==
    IF op = "process_data" THEN DataItems[record].storage_object
    ELSE FileItems[record].storage_object

RECURSIVE FlushedObjects(_)
\* the storage objects of the batches handed to a flush, in order
FlushedObjects(calls) ==
    IF calls = <<>> THEN <<>>
    ELSE (IF Head(calls).call = "upload_batch" THEN Head(calls).sobjs ELSE <<>>)
            \o FlushedObjects(Tail(calls))

\* the flushes begun so far, as their upload_batch calls
Flushes == SelectSeq(log, LAMBDA c : c.call = "upload_batch")

\* C13: batching covers the input exactly: every flushed batch has between 1
\* and BATCH_SIZE items, every batch but the last is full, and once the
\* method is over the flushed batches, put end to end, are the accepted
\* records of the input in input order, each exactly once.
C13_BatchingCoversInput ==
    /\ \A p \in 1..Len(Flushes) :
          /\ Len(Flushes[p].sobjs) \in 1..BATCH_SIZE
          /\ p < Len(Flushes) => Len(Flushes[p].sobjs) = BATCH_SIZE
    /\ Len(batch) <= BATCH_SIZE
    /\ (pc \in {"done", "raised"} /\ op # "") =>
          /\ Len(FlushedObjects(log)) = Len(Accepted)
          /\ \A p \in 1..Len(Accepted) : FlushedObjects(log)[p] = ObjectOf(Accepted[p])

\* C14: no automatic retries: within one ingest run the flushes are numbered
\* in the order they begin, each gets at most one upload_batch call and at
\* most one upsert_metadata call, failed or not, and the batches handed to
\* upload_batch are successive stretches of the accepted input, so no record
\* of a failed batch is flushed again.
C14_NoRetries ==
    /\ \A p \in 1..Len(log), q \in 1..Len(log) :
          (p < q /\ log[p].call = log[q].call) => log[p].flush < log[q].flush
    /\ \A p \in 1..Len(log) : log[p].flush \in 1..flush
    /\ Len(FlushedObjects(log)) <= Len(Accepted)
    /\ \A p \in 1..Len(FlushedObjects(log)) :
          FlushedObjects(log)[p] = ObjectOf(Accepted[p])

\* the run is over; the blob write of its first batch failed and a later
\* batch was flushed and indexed
C14_Witness ==
    /\ pc = "done"
    /\ \E p \in 1..Len(log), q \in 1..Len(log) :
          /\ p < q
          /\ log[p].call = "upload_batch" /\ ~log[p].ok /\ log[p].flush = 1
          /\ log[q].call = "upsert_metadata" /\ log[q].ok /\ log[q].flush = 2

\* how many of the records the loop has taken so far were accepted
AcceptedBefore ==
    Cardinality({p \in 1..(i - 1) :
                    IF op = "process_data" THEN ~DataDrops(data[p]) ELSE ~FileDrops(data[p])})

\* the call at position p of the log ended its flush: the index write was
\* made, or the batch was abandoned because upload_batch raised or returned
\* no locator
FlushOver(p) ==
    \/ log[p].call = "upsert_metadata"
    \/ log[p].call = "upload_batch" /\ (~log[p].ok \/ ~Truthy(log[p].url))

\* C15: the pipeline is strictly sequential per batch: an upload_batch call
\* is the first call of the run or follows a call that ended the flush
\* before it; while a flush is under way, and whenever the loop runs, the
\* records taken from the input are exactly those of the flushes that are
\* over and of the one batch in hand, so no record of the next batch is
\* normalised before the flush returned and there is never a second batch.
C15_OneBatchInFlight ==
    /\ \A p \in 1..Len(log) :
          log[p].call = "upload_batch" =>
             /\ p > 1 => (FlushOver(p - 1) /\ log[p - 1].flush < log[p].flush)
             /\ log[p].flush \in 1..flush
    /\ \A p \in 1..Len(log) :
          log[p].call = "upsert_metadata" =>
             /\ p > 1
             /\ log[p - 1].call = "upload_batch" /\ log[p - 1].flush = log[p].flush
    /\ pc \in {"loop", "done"} =>
          (log # <<>> => FlushOver(Len(log)))
    /\ pc \in {"loop", "upload", "done"} =>
          AcceptedBefore = Len(FlushedObjects(log)) + Len(batch)
    /\ pc = "index" =>
          /\ AcceptedBefore = Len(FlushedObjects(log))
          /\ log[Len(log)].sobjs = StorageData(batch)

\* the second batch is at its index write, straight after the index write
\* of the first
C15_Witness ==
    /\ pc = "index"
    /\ Len(log) = 3
    /\ log[2].call = "upsert_metadata" /\ log[2].flush = 1
    /\ log[3].call = "upload_batch" /\ log[3].flush = 2

(***************************************************************************)
(* The flush statement by statement, with interruptions: upsert_metadata   *)
(* opens a connection, executes its statements inside one transaction and  *)
(* commits once; the process can be terminated at any point of a flush,    *)
(* and a statement can raise.  A transaction that is not committed when    *)
(* its connection goes away is rolled back by the database.                *)
(***************************************************************************)
InitInterrupt ==
    /\ mode \in Modes
    /\ index = EmptyTable
    /\ blobs = EmptyTable
    /\ clock = 0
    /\ pc = "loop"
    /\ op \in {"process_data", "process_file"}
    /\ data \in Inputs
    /\ i = 1
    /\ batch = <<>>
    /\ raw_url = None
    /\ exc = ""
    /\ runs = 0
    /\ flush = 0
    /\ log = <<>>
    /\ query = NoFilters
    /\ results = <<>>
    /\ rd = NoRead
    /\ env = FullEnv
    /\ built = Components(mode)
    /\ procs = NoProcs
    /\ txn = NoTxn

interruptFrame == <<configVars, procs, blobs, clock, op, data, i, raw_url, runs, flush, readerVars>>

\* sqlite3.connect (local_database.py:36) / psycopg2.connect (database.py:80):
\* the transaction starts from the committed table
Connect ==
    /\ pc = "index"
    /\ txn = NoTxn
    /\ txn' = [table |-> index, next |-> 1]
    /\ UNCHANGED <<interruptFrame, index, pc, batch, exc, log>>

\* A faulty execute that writes each row through to the committed table;
\* the all-or-none property must tell it from ExecuteLocal.
ExecuteLocalAutocommit ==
    /\ pc = "index"
    /\ mode = "local"
    /\ txn # NoTxn
    /\ txn.next <= Len(batch)
    /\ index' = PutRow(index, MetadataList(batch, raw_url)[txn.next])
    /\ txn' = [table |-> PutRow(txn.table, MetadataList(batch, raw_url)[txn.next]),
               next  |-> txn.next + 1]
    /\ UNCHANGED <<interruptFrame, pc, batch, exc, log>>

\* one INSERT OR REPLACE of the loop (local_database.py:40-53)
ExecuteLocal ==
    /\ pc = "index"
    /\ mode = "local"
    /\ txn # NoTxn
    /\ txn.next <= Len(batch)
    /\ txn' = [table |-> PutRow(txn.table, MetadataList(batch, raw_url)[txn.next]),
               next  |-> txn.next + 1]
    /\ UNCHANGED <<interruptFrame, index, pc, batch, exc, log>>

\* execute_values (database.py:82): one statement for the whole list, the
\* batch being no longer than a page; the server accepts it
ExecuteRemote ==
    /\ pc = "index"
    /\ mode = "remote"
    /\ txn # NoTxn
    /\ txn.next = 1
    /\ ~StatementRejected(MetadataList(batch, raw_url))
    /\ txn' = [table |-> PutRows(txn.table, MetadataList(batch, raw_url)),
               next  |-> Len(batch) + 1]
    /\ UNCHANGED <<interruptFrame, index, pc, batch, exc, log>>

\* conn.commit() and the return (local_database.py:54-55, database.py:83-84)
Commit ==
    /\ pc = "index"
    /\ txn # NoTxn
    /\ txn.next > Len(batch)
    /\ index' = txn.table
    /\ txn' = NoTxn
    /\ pc' = "loop"
    /\ batch' = <<>>
    /\ log' = Append(log, Call("upsert_metadata", flush, <<>>,
                               MetadataList(batch, raw_url), TRUE, raw_url))
    /\ UNCHANGED <<interruptFrame, exc>>

\* a statement raises (the server rejects it, the disk is full, the
\* connection is lost): the connection is given up without a commit and the
\* exception leaves the run (local_database.py:56-60, database.py:85-87)
ExecuteRaises ==
    /\ pc = "index"
    /\ txn # NoTxn
    /\ txn.next <= Len(batch)
    /\ txn' = NoTxn
    /\ pc' = "raised"
    /\ exc' = "upsert_metadata"
    /\ log' = Append(log, Call("upsert_metadata", flush, <<>>,
                               SubSeq(MetadataList(batch, raw_url), 1, txn.next - 1),
                               FALSE, raw_url))
    /\ UNCHANGED <<interruptFrame, index, batch>>

\* the process is terminated during a flush; the log keeps the statements
\* that had been executed
Terminated ==
    /\ pc \in {"upload", "index"}
    /\ txn' = NoTxn
    /\ pc' = "terminated"
    /\ exc' = "terminated"
    /\ log' = Append(log, Call("terminated", flush, <<>>,
                               IF txn = NoTxn THEN <<>>
                               ELSE SubSeq(MetadataList(batch, raw_url), 1, txn.next - 1),
                               FALSE, raw_url))
    /\ UNCHANGED <<interruptFrame, index, batch>>

NextInterrupt ==
    \/ IterateData
    \/ IterateFile
    \/ LoopExit
    \/ UploadReturns
    \/ UploadRaises
    \/ Connect
    \/ ExecuteLocal
    \/ ExecuteRemote
    \/ Commit
    \/ ExecuteRaises
    \/ Terminated

SpecInterrupt == InitInterrupt /\ [][NextInterrupt]_vars

RECURSIVE IndexAfter(_, _)
\* the table the completed index writes of calls make of table, batch by batch
IndexAfter(calls, table) ==
    IF calls = <<>> THEN table
    ELSE IndexAfter(Tail(calls),
                    IF Head(calls).call = "upsert_metadata" /\ Head(calls).ok
                    THEN Upserted(mode, table, Head(calls).metas)
                    ELSE table)

\* C16: whatever the point at which a flush is interrupted, by termination
\* or by an exception, the index holds every entry of a batch or none: it is
\* at all times the table made by the completed index writes of the run,
\* whole batch after whole batch, and the interruption itself changes neither
\* the index nor any blob.
C16_AllOrNothing ==
    /\ [](index = IndexAfter(log, EmptyTable))
    /\ [][(pc \in {"upload", "index"} /\ pc' \in {"terminated", "raised"})
             => (index' = index /\ blobs' = blobs)]_vars

\* the embedded variant was terminated after the first of the two statements
\* of a batch with two different ids, and the index holds none of them
C16_Witness ==
    /\ pc = "terminated"
    /\ mode = "local"
    /\ Len(batch) = 2
    /\ batch[1].metadata.id # batch[2].metadata.id
    /\ Len(log[Len(log)].metas) = 1
    /\ index = EmptyTable

(***************************************************************************)
(* Two Uploader processes against the same index and blob store.  Each is  *)
(* at the flush of one batch (_upload_and_index, uploader.py:284-309); the *)
(* blob writes and the index writes of the two interleave freely.  An      *)
(* index write is one transaction, and both stores serialise transactions. *)
(***************************************************************************)
\* the input lists of one batch's length that method turns into a batch
BatchInputs(method) ==
    {d \in UNION {[1..n -> RawItems] : n \in 1..BATCH_SIZE} :
        \A q \in 1..Len(d) :
           IF method = "process_data" THEN ~DataDrops(d[q])
           ELSE ~FileDrops(d[q]) /\ FileRaises(d[q]) = ""}

\* the batch method makes of the input list d
BatchOf(method, d) ==
    [q \in 1..Len(d) |-> IF method = "process_data" THEN DataItems[d[q]]
                         ELSE FileItems[d[q]]]

\* a process about to flush a batch
Flushing ==
    UNION {{[pc |-> "upload", op |-> method, batch |-> BatchOf(method, d),
             raw_url |-> None] : d \in BatchInputs(method)} :
              method \in {"process_data", "process_file"}}

InitConcurrent ==
    /\ mode \in Modes
    /\ index = EmptyTable
    /\ blobs = EmptyTable
    /\ clock = 0
    /\ pc = "concurrent"
    /\ op = ""
    /\ data = <<>>
    /\ i = 1
    /\ batch = <<>>
    /\ raw_url = None
    /\ exc = ""
    /\ runs = 0
    /\ flush = 0
    /\ log = <<>>
    /\ query = NoFilters
    /\ results = <<>>
    /\ rd = NoRead
    /\ env = FullEnv
    /\ built = Components(mode)
    /\ txn = NoTxn
    /\ procs \in [Procs -> Flushing]

concurrentFrame == <<configVars, txn, runVars, readerVars>>

\* upload_batch of process p returns (local_storage.py:13-31, hf_storage.py:20-63)
ProcUploadReturns(p) ==
    /\ procs[p].pc = "upload"
    /\ \E timestamp \in clock..MaxClock, unique_id \in UniqueIds :
          /\ clock' = timestamp
          /\ blobs' = Written(blobs, FileName(timestamp, unique_id),
                              StorageData(procs[p].batch))
          /\ procs' = [procs EXCEPT ![p].pc = AfterUpload(PyStr(FileName(timestamp, unique_id))),
                                    ![p].raw_url = PyStr(FileName(timestamp, unique_id))]
    /\ UNCHANGED <<concurrentFrame, index>>

\* upload_batch of process p raises: its batch is skipped (uploader.py:292-294)
ProcUploadRaises(p) ==
    /\ procs[p].pc = "upload"
    /\ procs' = [procs EXCEPT ![p].pc = "skipped"]
    /\ UNCHANGED <<concurrentFrame, index, blobs, clock>>

\* upsert_metadata of process p commits (uploader.py:308)
ProcIndexReturns(p) ==
    /\ procs[p].pc = "index"
    /\ ~UpsertRaises(mode, MetadataList(procs[p].batch, procs[p].raw_url))
    /\ index' = Upserted(mode, index, MetadataList(procs[p].batch, procs[p].raw_url))
    /\ procs' = [procs EXCEPT ![p].pc = "done"]
    /\ UNCHANGED <<concurrentFrame, blobs, clock>>

\* upsert_metadata of process p raises and ends that process
ProcIndexRaises(p) ==
    /\ procs[p].pc = "index"
    /\ procs' = [procs EXCEPT ![p].pc = "raised"]
    /\ UNCHANGED <<concurrentFrame, index, blobs, clock>>

NextConcurrent ==
    \/ \E p \in Procs : ProcUploadReturns(p)
    \/ \E p \in Procs : ProcUploadRaises(p)
    \/ \E p \in Procs : ProcIndexReturns(p)
    \/ \E p \in Procs : ProcIndexRaises(p)

SpecConcurrent == InitConcurrent /\ [][NextConcurrent]_vars

\* C17: with two Uploader processes ingesting overlapping ids, under every
\* interleaving each index row is, in all its fields including
\* full_text_url, the entry one of the processes wrote for that id, and the
\* blob under that full_text_url exists and holds an object with that id.
C17_LastUpsertWins ==
    \A id \in DOMAIN index :
        /\ \E p \in Procs : \E q \in 1..Len(procs[p].batch) :
              /\ procs[p].pc = "done"
              /\ index[id] = Row(MetadataList(procs[p].batch, procs[p].raw_url)[q])
        /\ Holds(blobs, index[id].full_text_url, id)

\* C18: distinct upload_batch calls with non-empty input, from concurrent
\* processes and within the same second too, write under distinct names and
\* return distinct locators: a call never returns the locator another call
\* returned, and a blob once written is never overwritten or modified.
C18_NeverOverwritten ==
    [][/\ \A name \in DOMAIN blobs :
             name \in DOMAIN blobs' /\ blobs'[name] = blobs[name]
       /\ \A p \in Procs, o \in Procs :
             (p # o /\ procs'[p].raw_url # procs[p].raw_url)
                => procs'[p].raw_url # procs[o].raw_url]_vars

\* v is null or a string of the form YYYY-MM-DD
NullOrIsoForm(v) ==
    \/ v = None
    \/ /\ v.k = "str"
       /\ Len(v.s) = 10
       /\ \A r \in {1, 2, 3, 4, 6, 7, 9, 10} : IsDigitChar(v.s[r])
       /\ v.s[5] = "-"
       /\ v.s[8] = "-"

\* C19: every index entry the Uploader writes, on the pre-structured and on
\* the legacy path of process_data and of process_file, has karar_tarihi null
\* or of the form YYYY-MM-DD, both as handed to upsert_metadata and as stored.
C19_DatesAreIso ==
    /\ \A id \in DOMAIN index : NullOrIsoForm(index[id].karar_tarihi)
    /\ \A p \in 1..Len(log) :
          log[p].call = "upsert_metadata" =>
             \A q \in 1..Len(log[p].metas) : NullOrIsoForm(log[p].metas[q].karar_tarihi)

\* the text fields of an index entry
EntryFields == {"daire", "esas_no", "karar_no", "karar_tarihi", "ozet"}

\* C20: full content is stored only in the blob object: in every entry handed
\* to upsert_metadata no field, ozet in particular, equals the full content
\* of its record (the icerik_ham of the storage object written for it in the
\* same flush), and ozet is never longer than 250 characters plus the
\* ellipsis.
C20_ContentOnlyInBlob ==
    \A p \in 1..Len(log) :
        log[p].call = "upsert_metadata" =>
           \A q \in 1..Len(log[p].metas) :
              /\ \A f \in EntryFields :
                    log[p].metas[q][f] # log[p - 1].sobjs[q].icerik_ham
              /\ log[p].metas[q].ozet.k = "str" =>
                    Len(log[p].metas[q].ozet.s) <= SUMMARY_MAX + Len(Ellipsis)

\* C21: the relational and the embedded index implement the same search
\* contract: on the same rows and the same filters, without keyword a row is
\* accepted by the one predicate exactly when it is accepted by the other
\* (id, daire, esas_no, karar_no, year, start_date and end_date alike); with
\* keyword the embedded variant accepts what the relational one accepts and,
\* beyond that, only rows whose daire contains the keyword.
C21_SameSearchContract ==
    \A id \in DOMAIN index :
        IF ~Truthy(query.keyword)
        THEN Where("remote", index[id], query) <=> Where("local", index[id], query)
        ELSE /\ Where("remote", index[id], query) => Where("local", index[id], query)
             /\ (Where("local", index[id], query) /\ ~Where("remote", index[id], query))
                   => Like(index[id].daire, Str(query.keyword))

\* the positions of the cache rows of the last read_decision that carry the
\* requested id
CacheHits == {p \in 1..Len(rd.cache) : IntToStr(rd.cache[p].id) = Str(rd.decision_id)}

\* C22: the locator read_decision passes to fetch_full_text comes from a row
\* whose string-normalised id is the requested id: the first cache row with
\* that id when it carries a locator, the index then not being queried,
\* otherwise the index row of that id; 0 and other falsy ids included.
C22_LocatorOfRequestedId ==
    rd.fetched =>
       /\ rd.src >= 0
       /\ IntToStr(rd.src) = Str(rd.decision_id)
       /\ IF CacheHits # {} /\ Truthy(rd.cache[Min(CacheHits)].full_text_url)
          THEN ~rd.queried /\ rd.target_url = rd.cache[Min(CacheHits)].full_text_url
          ELSE /\ rd.queried
               /\ rd.src \in DOMAIN rd.table
               /\ rd.target_url = rd.table[rd.src].full_text_url

\* storage object o and index entry m describe the same record
SameRecord(o, m) ==
    /\ o.id = PyStr(IntToStr(m.id))
    /\ o.daire = m.daire
    /\ o.esasNo = m.esas_no
    /\ o.kararNo = m.karar_no

\* C23: for every record process_data or process_file puts in a batch and
\* flushes, the storage object and the index entry agree: the object's id is
\* the string form of the entry's id, and its daire, esasNo and kararNo are
\* the entry's daire, esas_no and karar_no, on the pre-structured and on the
\* legacy path, also when a legacy item carries such a field of its own.
C23_ObjectMatchesEntry ==
    /\ \A p \in 1..Len(batch) : SameRecord(batch[p].storage_object, batch[p].metadata)
    /\ \A p \in 1..Len(log) :
          log[p].call = "upsert_metadata" =>
             \A q \in 1..Len(log[p].metas) :
                SameRecord(log[p - 1].sobjs[q], log[p].metas[q])

====
